---- MODULE Spec2Model ----
(***************************************************************************)
(* Model of the recording engine of src-tauri/src/recording/recording.rs:  *)
(* RecorderState (session slot, stop flag, worker handles, encoder child   *)
(* slot), its start_recording / stop_recording operations, the encoder     *)
(* supervisor thread, the input capture thread and the segment watcher.    *)
(*                                                                         *)
(* Every start_recording / stop_recording call is run by a caller thread   *)
(* and is split at the points where another thread can observe or change   *)
(* shared state (lock acquisitions, atomic stores, thread spawns, joins).  *)
(*                                                                         *)
(* Environment assumptions (not failures of the engine itself): the host   *)
(* shell's emit succeeds, the main window exists and the application data  *)
(* directory resolves, so the expect()/unwrap() calls at lines 69, 359,    *)
(* 383 and 411 do not panic.  Directory creation, CSV persistence, path    *)
(* canonicalisation, encoder spawn, quit and wait may fail.  Seeking in    *)
(* the opened segment list and asking for its stream position (lines 529   *)
(* and 587) succeed, as they do on a regular file.                         *)
(***************************************************************************)
EXTENDS Integers, Sequences, FiniteSets

\* ------------------------------------------------------------------ bounds
\* Total number of start/stop invocations over a behaviour.
MaxCalls == 3
\* Number of invocations that may be in progress at the same time, each on a
\* thread of its own.
NumCallers == 2
\* Total number of input events the OS listener delivers over a behaviour.
MaxEvents == 2
\* Total number of segments the encoder lists over a behaviour.
MaxSegments == 2
\* Length of a segment in seconds (-segment_time, line 176).
SegmentTime == 60

\* The invocations, numbered in the order in which they begin.
Calls == 1..MaxCalls
\* Session identifiers (Uuid::new_v4 is modelled as the next unused number);
\* a start call creates at most one session, so MaxCalls identifiers suffice.
Sids == 1..MaxCalls

\* Option::None for the session slot and for the handle slots.
None == 0
NoSession == [id |-> None, events |-> <<>>, output_dir |-> None]
\* The session mutex when nobody holds it.
Free == <<"free", None>>

\* Results a call can end with.  "Panic" is a call that unwound instead of
\* returning a value.
Results == {"Ok", "AlreadyActive", "NotActive", "IoError", "Panic"}

\* The rdev event kinds (EventType) the listener can deliver.
EventKinds == {"MouseMove", "ButtonPress", "ButtonRelease", "KeyPress", "KeyRelease", "Wheel"}
\* The positions a pointer move can report and the display scale factors the
\* main window can report.
Points == {<<1, 2>>}
\* Fractions are kept in fixed point: a scale factor and a scaled position
\* are counted in units of 1/Unit.  The scale factors are 1.0 and 1.5.
Unit == 2
ScaleFactors == {2, 3}
\* f64 as i32 (lines 469-470) of a non-negative fixed-point value: the
\* fraction is cut off.
AsI32(v) == v \div Unit

\* rdev's Button (Left, Right, Middle, Unknown(byte)) and Key (named keys and
\* Unknown(code)): Alt and AltGr are two keys with one KeyboardActionKey,
\* KeyA has its own, Kp0 has none.
NoButton == [name |-> "none", byte |-> 0]
Buttons ==
    {[name |-> n, byte |-> 0] : n \in {"Left", "Right", "Middle"}}
    \cup {[name |-> "Unknown", byte |-> 8]}
NoKey == [name |-> "none", code |-> 0]
Keys ==
    {[name |-> n, code |-> 0] : n \in {"KeyA", "Alt", "AltGr", "Kp0"}}
    \cup {[name |-> "Unknown", code |-> 7]}
\* The wheel deltas (i64) a wheel event can carry: a notch in either
\* direction, or none on that axis.
WheelDeltas == {-1, 0, 1}

\* rdev's EventType values: the kind with its payload.
OsEvent(k, p, b, key, d) ==
    [kind |-> k, x |-> p[1], y |-> p[2], button |-> b, key |-> key,
     delta_x |-> d[1], delta_y |-> d[2]]
MouseMove(p) == OsEvent("MouseMove", p, NoButton, NoKey, <<0, 0>>)
ButtonPress(b) == OsEvent("ButtonPress", <<0, 0>>, b, NoKey, <<0, 0>>)
ButtonRelease(b) == OsEvent("ButtonRelease", <<0, 0>>, b, NoKey, <<0, 0>>)
KeyPress(key) == OsEvent("KeyPress", <<0, 0>>, NoButton, key, <<0, 0>>)
KeyRelease(key) == OsEvent("KeyRelease", <<0, 0>>, NoButton, key, <<0, 0>>)
Wheel(d) == OsEvent("Wheel", <<0, 0>>, NoButton, NoKey, d)

\* RecordingEvent stamped with the origin instead of the cached position.
RecordingEvent_Origin(e, pos) ==
    [kind |-> e.kind, event |-> e, mouse_x |-> 0, mouse_y |-> 0]

\* RecordingEvent (lines 27-32 and 451-456), without its timestamp.
RecordingEvent(e, pos) ==
    [kind |-> e.kind, event |-> e, mouse_x |-> pos[1], mouse_y |-> pos[2]]
\* No event pending in the callback.
NoEvent ==
    [kind |-> "none", event |-> OsEvent("none", <<0, 0>>, NoButton, NoKey, <<0, 0>>),
     mouse_x |-> 0, mouse_y |-> 0]

VARIABLES
    \* ---- RecorderState (lines 207-215)
    session,            \* session: Mutex<Option<RecordingSession>>, the slot
    sessionLock,        \* holder of the session mutex: Free, <<"call", c>> or <<"input", w>>
    is_recording,       \* is_recording: AtomicBool
    ffmpeg_handle,      \* ffmpeg_handle: Option<JoinHandle>, None or the worker's sid
    ffmpegHandleLock,   \* caller holding the ffmpeg_handle mutex (held across the join), or None
    ffmpegHandlePoisoned, \* the ffmpeg_handle mutex was poisoned by a panic under it
    event_handle,       \* event_handle: Option<JoinHandle>
    eventHandleLock,    \* caller holding the event_handle mutex (held across the join), or None
    ffmpeg_child,       \* ffmpeg_child: Option<FfmpegChild>, None or the child's sid
    nextId,             \* next fresh identifier
    \* ---- the invocations of start_recording / stop_recording
    pc,                 \* pc[c]: position of call c: "new", inside the code, or "done"
    op,                 \* op[c]: "start" or "stop" ("none" before the call begins)
    res,                \* res[c]: result of call c ("none" until it has finished)
    mySid,              \* mySid[c]: local session_id of a start call
    joining,            \* joining[c]: the handle a stop call is joining
    \* ---- workers, indexed by the session that spawned them
    encPc,              \* encoder supervisor thread
    encChild,           \* the child the supervisor took from the ffmpeg_child slot
    child,              \* the encoder child process: "none", "running", "quitting", "exited"
    childOps,           \* (ghost) what the supervisor did to its child and the forwarders, in order
    inPc,               \* input capture thread
    last_mouse_pos,     \* last_mouse_pos of the listener's callback (line 426)
    cbPending,          \* the event a callback holds between the flag check and the lock
    clock_over,         \* the wall clock has left the range of timestamp_nanos_opt (line 433)
    lastMove,           \* (ghost) scaled position of the last move delivered while recording
    ignored,            \* (ghost) number of events delivered while the stop flag was set
    accepted,           \* (ghost) the events the callback built, in the order of their delivery
    watchPc,            \* segment watcher thread: "none", "sleep", "read" or "panicked"
    last_position,      \* last_position of monitor_segments (line 523)
    handed,             \* (ghost) uploads the watcher spawned in its current scan
    segments_csv,       \* segments_csv[w]: the session's segment list: whether it exists, its bytes
    uploads,            \* upload tasks spawned on the runtime, in order
    \* ---- outside world
    emitted,            \* notifications emitted to the host shell, in order
    requests,           \* HTTP requests spawned on the runtime, in order
    devent_done,        \* how many event POSTs have completed, by result
    events_csv,         \* events_csv[w]: the session's events.csv: whether written, and its rows
    delivered,          \* number of input events delivered so far
    \* ---- history (ghost) variables, read only by the properties
    calls,              \* number of calls begun
    alone               \* alone[c]: no other call was in progress when c began

ctlVars == <<session, sessionLock, is_recording, ffmpeg_handle, ffmpegHandleLock,
             ffmpegHandlePoisoned, event_handle, eventHandleLock, ffmpeg_child, nextId>>
callVars == <<pc, op, res, mySid, joining>>
encVars == <<encPc, encChild, child, childOps>>
cbVars == <<last_mouse_pos, cbPending, delivered, clock_over, lastMove, ignored, accepted>>
inVars == <<inPc, cbVars>>
watchVars == <<watchPc, last_position, handed, segments_csv, uploads>>
outVars == <<emitted, requests, events_csv, devent_done>>
histVars == <<calls, alone>>
vars == <<ctlVars, callVars, encVars, inVars, watchVars, outVars, histVars>>

\* RecorderState::new (lines 218-228): empty slot, flag clear, no handles.
Init ==
    /\ session = NoSession
    /\ sessionLock = Free
    /\ is_recording = FALSE
    /\ ffmpeg_handle = None
    /\ ffmpegHandleLock = None
    /\ ffmpegHandlePoisoned = FALSE
    /\ event_handle = None
    /\ eventHandleLock = None
    /\ ffmpeg_child = None
    /\ nextId = 1
    /\ pc = [c \in Calls |-> "new"]
    /\ op = [c \in Calls |-> "none"]
    /\ res = [c \in Calls |-> "none"]
    /\ mySid = [c \in Calls |-> None]
    /\ joining = [c \in Calls |-> None]
    /\ encPc = [w \in Sids |-> "none"]
    /\ encChild = [w \in Sids |-> None]
    /\ child = [w \in Sids |-> "none"]
    /\ childOps = [w \in Sids |-> <<>>]
    /\ inPc = [w \in Sids |-> "none"]
    /\ last_mouse_pos = [w \in Sids |-> <<0, 0>>]
    /\ cbPending = [w \in Sids |-> NoEvent]
    /\ clock_over = FALSE
    /\ lastMove = [w \in Sids |-> <<0, 0>>]
    /\ ignored = 0
    /\ accepted = <<>>
    /\ watchPc = [w \in Sids |-> "none"]
    /\ last_position = [w \in Sids |-> 0]
    /\ handed = [w \in Sids |-> 0]
    /\ segments_csv = [w \in Sids |-> [exists |-> FALSE, bytes |-> <<>>]]
    /\ uploads = <<>>
    /\ emitted = <<>>
    /\ requests = <<>>
    /\ devent_done = [ok |-> 0, failed |-> 0]
    /\ events_csv = [w \in Sids |-> [written |-> FALSE, rows |-> <<>>]]
    /\ delivered = 0
    /\ calls = 0
    /\ alone = [c \in Calls |-> FALSE]

\* ---------------------------------------------------------------- helpers
InFlight(c) == pc[c] \notin {"new", "done"}
Finished(c) == pc[c] = "done"
IsSome(s) == s.id # None

\* Call c ends with result r.
Return(c, r) ==
    /\ pc' = [pc EXCEPT ![c] = "done"]
    /\ res' = [res EXCEPT ![c] = r]
    /\ UNCHANGED <<op, histVars>>

\* Call c moves to position p of its code.
Goto(c, p) ==
    /\ pc' = [pc EXCEPT ![c] = p]
    /\ UNCHANGED <<op, res, histVars>>

\* The command o is invoked (the command entry points start_recording /
\* stop_recording, lines 604-616, call the method of RecorderState).  A call
\* begins with its first access to shared state: until then no other thread
\* can tell that it has been invoked.
Begin(c, o) ==
    /\ c = calls + 1
    /\ Cardinality({d \in Calls : InFlight(d)}) < NumCallers
    /\ calls' = c
    /\ op' = [op EXCEPT ![c] = o]
    /\ alone' = [alone EXCEPT ![c] = \A d \in Calls : ~InFlight(d)]

\* Call c, just begun, ends with result r / moves to position p.
BeginReturn(c, r) ==
    /\ pc' = [pc EXCEPT ![c] = "done"]
    /\ res' = [res EXCEPT ![c] = r]

BeginGoto(c, p) ==
    /\ pc' = [pc EXCEPT ![c] = p]
    /\ UNCHANGED res

\* ------------------------------------------------- start_recording (230-386)
\* StartCheck without the is_some test of line 232: every start goes on to
\* create a session.
StartCheck_NoCheck(c) ==
    /\ Begin(c, "start")
    /\ sessionLock = Free
    /\ BeginGoto(c, "s_new")
    /\ sessionLock' = <<"call", c>>
    /\ UNCHANGED <<session, is_recording, ffmpeg_handle, ffmpegHandleLock,
                   ffmpegHandlePoisoned, event_handle, eventHandleLock, ffmpeg_child, nextId>>
    /\ UNCHANGED <<mySid, joining, encVars, inVars, watchVars, outVars>>

\* StartCheck with the store of line 245 moved before the test of line 232:
\* the stop flag is cleared even when the start is refused.
StartCheck_FlagFirst(c) ==
    /\ Begin(c, "start")
    /\ sessionLock = Free
    /\ is_recording' = TRUE
    /\ IF IsSome(session)
       THEN /\ BeginReturn(c, "AlreadyActive")
            /\ UNCHANGED sessionLock
       ELSE /\ BeginGoto(c, "s_new")
            /\ sessionLock' = <<"call", c>>
    /\ UNCHANGED <<session, ffmpeg_handle, ffmpegHandleLock,
                   ffmpegHandlePoisoned, event_handle, eventHandleLock, ffmpeg_child, nextId>>
    /\ UNCHANGED <<mySid, joining, encVars, inVars, watchVars, outVars>>

\* Lines 231-234: lock the slot; if it is occupied return the "already in
\* progress" error (the guard is dropped), else go on to RecordingSession::new
\* with the lock held.
StartCheck(c) ==
    /\ Begin(c, "start")
    /\ sessionLock = Free
    /\ IF IsSome(session)
       THEN /\ BeginReturn(c, "AlreadyActive")
            /\ UNCHANGED sessionLock
       ELSE /\ BeginGoto(c, "s_new")
            /\ sessionLock' = <<"call", c>>
    /\ UNCHANGED <<session, is_recording, ffmpeg_handle, ffmpegHandleLock,
                   ffmpegHandlePoisoned, event_handle, eventHandleLock, ffmpeg_child, nextId>>
    /\ UNCHANGED <<mySid, joining, encVars, inVars, watchVars, outVars>>

\* StartNew with the slot filled before the directories are created: a
\* failed create_dir_all leaves the new session in the slot.
StartNew_SlotOnFailure(c) ==
    /\ pc[c] = "s_new"
    /\ sessionLock = <<"call", c>>
    /\ sessionLock' = Free
    /\ session' = [id |-> nextId, events |-> <<>>, output_dir |-> nextId]
    /\ nextId' = nextId + 1
    /\ \E dirs_ok \in BOOLEAN :
         IF dirs_ok
         THEN /\ mySid' = [mySid EXCEPT ![c] = nextId]
              /\ Goto(c, "s_flag")
         ELSE /\ Return(c, "IoError")
              /\ UNCHANGED mySid
    /\ UNCHANGED <<is_recording, ffmpeg_handle, ffmpegHandleLock, ffmpegHandlePoisoned,
                   event_handle, eventHandleLock, ffmpeg_child>>
    /\ UNCHANGED <<joining, encVars, inVars, watchVars, outVars>>

\* StartNew with the store of line 245 done before the `?` of line 235: the
\* stop flag is cleared also when the directories could not be created.
StartNew_FlagOnFailure(c) ==
    /\ pc[c] = "s_new"
    /\ sessionLock = <<"call", c>>
    /\ sessionLock' = Free
    /\ is_recording' = TRUE
    /\ \E dirs_ok \in BOOLEAN :
         IF dirs_ok
         THEN /\ session' = [id |-> nextId, events |-> <<>>, output_dir |-> nextId]
              /\ nextId' = nextId + 1
              /\ mySid' = [mySid EXCEPT ![c] = nextId]
              /\ Goto(c, "s_flag")
         ELSE /\ Return(c, "IoError")
              /\ UNCHANGED <<session, nextId, mySid>>
    /\ UNCHANGED <<ffmpeg_handle, ffmpegHandleLock, ffmpegHandlePoisoned,
                   event_handle, eventHandleLock, ffmpeg_child>>
    /\ UNCHANGED <<joining, encVars, inVars, watchVars, outVars>>

\* RecordingSession::new (61-82) and lines 235-243: a fresh id, the two
\* create_dir_all calls (which may fail: the `?` returns the error and drops
\* the guard), then the slot is filled and the guard dropped.
StartNew(c) ==
    /\ pc[c] = "s_new"
    /\ sessionLock = <<"call", c>>
    /\ sessionLock' = Free
    /\ \E dirs_ok \in BOOLEAN :
         IF dirs_ok
         THEN /\ session' = [id |-> nextId, events |-> <<>>, output_dir |-> nextId]
              /\ nextId' = nextId + 1
              /\ mySid' = [mySid EXCEPT ![c] = nextId]
              /\ Goto(c, "s_flag")
         ELSE /\ Return(c, "IoError")
              /\ UNCHANGED <<session, nextId, mySid>>
    /\ UNCHANGED <<is_recording, ffmpeg_handle, ffmpegHandleLock, ffmpegHandlePoisoned,
                   event_handle, eventHandleLock, ffmpeg_child>>
    /\ UNCHANGED <<joining, encVars, inVars, watchVars, outVars>>

\* Line 245: is_recording.store(true).
StartSetFlag(c) ==
    /\ pc[c] = "s_flag"
    /\ is_recording' = TRUE
    /\ Goto(c, "s_spawn_enc")
    /\ UNCHANGED <<session, sessionLock, ffmpeg_handle, ffmpegHandleLock,
                   ffmpegHandlePoisoned, event_handle, eventHandleLock, ffmpeg_child, nextId>>
    /\ UNCHANGED <<mySid, joining, encVars, inVars, watchVars, outVars>>

\* Line 251: thread::spawn of the encoder supervisor closure.
StartSpawnEncoder(c) ==
    /\ pc[c] = "s_spawn_enc"
    /\ encPc' = [encPc EXCEPT ![mySid[c]] = "spawn"]
    /\ Goto(c, "s_store_enc")
    /\ UNCHANGED <<ctlVars, mySid, joining, encChild, childOps, child, inVars, watchVars, outVars>>

\* Lines 348-351: the join handle is stored under the ffmpeg_handle mutex;
\* lock().expect() panics when the mutex is poisoned.
StartStoreFfmpegHandle(c) ==
    /\ pc[c] = "s_store_enc"
    /\ ffmpegHandleLock = None
    /\ IF ffmpegHandlePoisoned
       THEN /\ Return(c, "Panic")
            /\ UNCHANGED ffmpeg_handle
       ELSE /\ ffmpeg_handle' = mySid[c]
            /\ Goto(c, "s_spawn_ev")
    /\ UNCHANGED <<session, sessionLock, is_recording, ffmpegHandleLock,
                   ffmpegHandlePoisoned, event_handle, eventHandleLock, ffmpeg_child, nextId>>
    /\ UNCHANGED <<mySid, joining, encVars, inVars, watchVars, outVars>>

\* Lines 362-373: thread::spawn of the input capture thread
\* (event_capture_task) and of the segment watcher (monitor_segments), whose
\* handle is dropped.
StartSpawnCapture(c) ==
    /\ pc[c] = "s_spawn_ev"
    /\ inPc' = [inPc EXCEPT ![mySid[c]] = "listen"]
    /\ watchPc' = [watchPc EXCEPT ![mySid[c]] = "sleep"]
    /\ Goto(c, "s_store_ev")
    /\ UNCHANGED <<ctlVars, mySid, joining, encVars, cbVars,
                   last_position, handed, segments_csv, uploads, outVars>>

\* Lines 375-378: the input thread's handle is stored under the event_handle
\* mutex.
StartStoreEventHandle(c) ==
    /\ pc[c] = "s_store_ev"
    /\ eventHandleLock = None
    /\ event_handle' = mySid[c]
    /\ Goto(c, "s_emit")
    /\ UNCHANGED <<session, sessionLock, is_recording, ffmpeg_handle, ffmpegHandleLock,
                   ffmpegHandlePoisoned, eventHandleLock, ffmpeg_child, nextId>>
    /\ UNCHANGED <<mySid, joining, encVars, inVars, watchVars, outVars>>

\* Lines 380-385: emit recording_started and return Ok.  The notification
\* has no payload; the sid recorded with it is a ghost annotation.
StartEmit(c) ==
    /\ pc[c] = "s_emit"
    /\ emitted' = Append(emitted, [name |-> "recording_started", sid |-> mySid[c]])
    /\ Return(c, "Ok")
    /\ UNCHANGED <<ctlVars, mySid, joining, encVars, inVars, watchVars, requests, events_csv, devent_done>>

\* --------------------------------------------------- stop_recording (388-417)
\* Line 390: is_recording.store(false).
StopSetFlag(c) ==
    /\ Begin(c, "stop")
    /\ is_recording' = FALSE
    /\ BeginGoto(c, "t_take_enc")
    /\ UNCHANGED <<session, sessionLock, ffmpeg_handle, ffmpegHandleLock,
                   ffmpegHandlePoisoned, event_handle, eventHandleLock, ffmpeg_child, nextId>>
    /\ UNCHANGED <<mySid, joining, encVars, inVars, watchVars, outVars>>

\* Line 393: ffmpeg_handle.lock().unwrap().take().  The guard is a temporary
\* of the `if let` scrutinee, so it is held until the join at line 394 is
\* over; unwrap() panics when the mutex is poisoned.
StopTakeFfmpegHandle(c) ==
    /\ pc[c] = "t_take_enc"
    /\ ffmpegHandleLock = None
    /\ IF ffmpegHandlePoisoned
       THEN /\ Return(c, "Panic")
            /\ UNCHANGED <<ffmpeg_handle, ffmpegHandleLock, joining>>
       ELSE IF ffmpeg_handle = None
       THEN /\ Goto(c, "t_take_ev")
            /\ UNCHANGED <<ffmpeg_handle, ffmpegHandleLock, joining>>
       ELSE /\ joining' = [joining EXCEPT ![c] = ffmpeg_handle]
            /\ ffmpeg_handle' = None
            /\ ffmpegHandleLock' = c
            /\ Goto(c, "t_join_enc")
    /\ UNCHANGED <<session, sessionLock, is_recording, ffmpegHandlePoisoned,
                   event_handle, eventHandleLock, ffmpeg_child, nextId>>
    /\ UNCHANGED <<mySid, encVars, inVars, watchVars, outVars>>

\* Line 394: handle.join().unwrap() blocks until the encoder thread is over
\* and panics (poisoning the mutex whose guard is alive) when it panicked.
StopJoinFfmpeg(c) ==
    /\ pc[c] = "t_join_enc"
    /\ encPc[joining[c]] \in {"done", "panicked"}
    /\ ffmpegHandleLock' = None
    /\ IF encPc[joining[c]] = "panicked"
       THEN /\ ffmpegHandlePoisoned' = TRUE
            /\ Return(c, "Panic")
       ELSE /\ UNCHANGED ffmpegHandlePoisoned
            /\ Goto(c, "t_take_ev")
    /\ joining' = [joining EXCEPT ![c] = None]
    /\ UNCHANGED <<session, sessionLock, is_recording, ffmpeg_handle,
                   event_handle, eventHandleLock, ffmpeg_child, nextId>>
    /\ UNCHANGED <<mySid, encVars, inVars, watchVars, outVars>>

\* Line 398: event_handle.lock().unwrap().take(), the guard again held until
\* the join at line 399 is over.
StopTakeEventHandle(c) ==
    /\ pc[c] = "t_take_ev"
    /\ eventHandleLock = None
    /\ IF event_handle = None
       THEN /\ Goto(c, "t_lock")
            /\ UNCHANGED <<event_handle, eventHandleLock, joining>>
       ELSE /\ joining' = [joining EXCEPT ![c] = event_handle]
            /\ event_handle' = None
            /\ eventHandleLock' = c
            /\ Goto(c, "t_join_ev")
    /\ UNCHANGED <<session, sessionLock, is_recording, ffmpeg_handle, ffmpegHandleLock,
                   ffmpegHandlePoisoned, ffmpeg_child, nextId>>
    /\ UNCHANGED <<mySid, encVars, inVars, watchVars, outVars>>

\* Line 399: handle.join() blocks until the input capture thread is over,
\* that is until rdev's listen has returned.
StopJoinEvent(c) ==
    /\ pc[c] = "t_join_ev"
    /\ inPc[joining[c]] = "done"
    /\ eventHandleLock' = None
    /\ joining' = [joining EXCEPT ![c] = None]
    /\ Goto(c, "t_lock")
    /\ UNCHANGED <<session, sessionLock, is_recording, ffmpeg_handle, ffmpegHandleLock,
                   ffmpegHandlePoisoned, event_handle, ffmpeg_child, nextId>>
    /\ UNCHANGED <<mySid, encVars, inVars, watchVars, outVars>>

\* NotActive with the Err of line 413 turned into Ok.
NotActive_Ok(c) ==
    /\ sessionLock' = Free
    /\ Return(c, "Ok")

\* Lines 412-414: the slot is empty, "No active recording session".
NotActive(c) ==
    /\ sessionLock' = Free
    /\ Return(c, "NotActive")

\* Lines 405-406: lock the slot and look at it.
StopLock(c) ==
    /\ pc[c] = "t_lock"
    /\ sessionLock = Free
    /\ IF IsSome(session)
       THEN /\ sessionLock' = <<"call", c>>
            /\ Goto(c, "t_save")
       ELSE NotActive(c)
    /\ UNCHANGED <<session, is_recording, ffmpeg_handle, ffmpegHandleLock,
                   ffmpegHandlePoisoned, event_handle, eventHandleLock, ffmpeg_child, nextId>>
    /\ UNCHANGED <<mySid, joining, encVars, inVars, watchVars, outVars>>

\* save_events_to_csv (100-127): one row per buffered event; the buffer is
\* read, not drained.
CsvRows(s) == s.events

\* Line 407: s.save_events_to_csv()?, with the slot's guard held.  On an
\* error the `?` returns it and the guard is dropped.
StopSave(c) ==
    /\ pc[c] = "t_save"
    /\ sessionLock = <<"call", c>>
    /\ \E csv_ok \in BOOLEAN :
         IF csv_ok
         THEN /\ events_csv' = [events_csv EXCEPT ![session.id] =
                                   [written |-> TRUE, rows |-> CsvRows(session)]]
              /\ UNCHANGED sessionLock
              /\ Goto(c, "t_emit")
         ELSE /\ sessionLock' = Free
              /\ Return(c, "IoError")
              /\ UNCHANGED events_csv
    /\ UNCHANGED <<session, is_recording, ffmpeg_handle, ffmpegHandleLock,
                   ffmpegHandlePoisoned, event_handle, eventHandleLock, ffmpeg_child, nextId>>
    /\ UNCHANGED <<mySid, joining, encVars, inVars, watchVars, emitted, requests, devent_done>>

\* Lines 408-416: canonicalize()? (may fail), emit recording_complete,
\* return Ok; the guard is dropped on return.  The session was borrowed with
\* as_mut (line 406) and stays in the slot, with its events.
StopEmit(c) ==
    /\ pc[c] = "t_emit"
    /\ sessionLock = <<"call", c>>
    /\ sessionLock' = Free
    /\ \E path_ok \in BOOLEAN :
         IF path_ok
         THEN /\ emitted' = Append(emitted, [name |-> "recording_complete", sid |-> session.id])
              /\ Return(c, "Ok")
         ELSE /\ Return(c, "IoError")
              /\ UNCHANGED emitted
    /\ UNCHANGED <<session, is_recording, ffmpeg_handle, ffmpegHandleLock,
                   ffmpegHandlePoisoned, event_handle, eventHandleLock, ffmpeg_child, nextId>>
    /\ UNCHANGED <<mySid, joining, encVars, inVars, watchVars, requests, events_csv, devent_done>>

\* ------------------------------------- encoder supervisor thread (255-345)
\* Lines 256-287: spawn the encoder (list_ffmpeg_devices' expect at 198 or the
\* panic! at 280 unwind the thread when it cannot be spawned), take its
\* stdout/stderr, put the child in the ffmpeg_child slot and start the two
\* forwarder threads.
EncSpawn(w) ==
    /\ encPc[w] = "spawn"
    /\ \E spawn_ok \in BOOLEAN :
         IF spawn_ok
         THEN /\ child' = [child EXCEPT ![w] = "running"]
              /\ ffmpeg_child' = w
              /\ encPc' = [encPc EXCEPT ![w] = "poll"]
         ELSE /\ encPc' = [encPc EXCEPT ![w] = "panicked"]
              /\ UNCHANGED <<child, ffmpeg_child>>
    /\ UNCHANGED <<session, sessionLock, is_recording, ffmpeg_handle, ffmpegHandleLock,
                   ffmpegHandlePoisoned, event_handle, eventHandleLock, nextId>>
    /\ UNCHANGED <<callVars, encChild, childOps, inVars, watchVars, outVars, histVars>>

\* EncPoll with the test of line 309 inverted: the loop ends only while the
\* stop flag is clear.
EncPoll_WhileClear(w) ==
    /\ encPc[w] = "poll"
    /\ is_recording
    /\ encPc' = [encPc EXCEPT ![w] = "take"]
    /\ UNCHANGED <<ctlVars, callVars, encChild, childOps, child, inVars, watchVars, outVars, histVars>>

\* EncPoll with the loop also ending when the encoder has exited.
EncPoll_WatchesChild(w) ==
    /\ encPc[w] = "poll"
    /\ ~is_recording \/ child[w] = "exited"
    /\ encPc' = [encPc EXCEPT ![w] = "take"]
    /\ UNCHANGED <<ctlVars, callVars, encChild, childOps, child, inVars, watchVars, outVars, histVars>>

\* Lines 308-310: the polling loop ends when the stop flag is observed.
EncPoll(w) ==
    /\ encPc[w] = "poll"
    /\ ~is_recording
    /\ encPc' = [encPc EXCEPT ![w] = "take"]
    /\ UNCHANGED <<ctlVars, callVars, encChild, childOps, child, inVars, watchVars, outVars, histVars>>

\* What the supervisor did, as an entry of childOps.
ChildOp(name, ok) == [op |-> name, ok |-> ok]
Did(w, name, ok) == childOps' = [childOps EXCEPT ![w] = Append(@, ChildOp(name, ok))]

\* Lines 313-317: take the child out of the ffmpeg_child slot.
EncTake(w) ==
    /\ encPc[w] = "take"
    /\ IF ffmpeg_child = None
       THEN /\ encPc' = [encPc EXCEPT ![w] = "join_stdio"]
            /\ UNCHANGED <<encChild, ffmpeg_child>>
       ELSE /\ encChild' = [encChild EXCEPT ![w] = ffmpeg_child]
            /\ ffmpeg_child' = None
            /\ encPc' = [encPc EXCEPT ![w] = "quit"]
    /\ UNCHANGED <<session, sessionLock, is_recording, ffmpeg_handle, ffmpegHandleLock,
                   ffmpegHandlePoisoned, event_handle, eventHandleLock, nextId>>
    /\ UNCHANGED <<callVars, child, childOps, inVars, watchVars, outVars, histVars>>

\* EncQuit with the Err arm of lines 332-338 going on to the joins without
\* the kill.
EncQuit_NoKill(w) ==
    /\ encPc[w] = "quit"
    /\ \E quit_ok \in BOOLEAN :
         /\ IF quit_ok
            THEN /\ child' = [child EXCEPT ![encChild[w]] =
                                IF @ = "running" THEN "quitting" ELSE @]
                 /\ encPc' = [encPc EXCEPT ![w] = "wait"]
            ELSE /\ encPc' = [encPc EXCEPT ![w] = "join_stdio"]
                 /\ UNCHANGED child
         /\ Did(w, "quit", quit_ok)
    /\ UNCHANGED <<ctlVars, callVars, encChild, inVars, watchVars, outVars, histVars>>

\* Line 319: child.quit() writes the quit command to the child's stdin; it
\* fails when the pipe is closed.
EncQuit(w) ==
    /\ encPc[w] = "quit"
    /\ \E quit_ok \in BOOLEAN :
         /\ IF quit_ok
            THEN /\ child' = [child EXCEPT ![encChild[w]] =
                                IF @ = "running" THEN "quitting" ELSE @]
                 /\ encPc' = [encPc EXCEPT ![w] = "wait"]
            ELSE /\ encPc' = [encPc EXCEPT ![w] = "kill"]
                 /\ UNCHANGED child
         /\ Did(w, "quit", quit_ok)
    /\ UNCHANGED <<ctlVars, callVars, encChild, inVars, watchVars, outVars, histVars>>

\* Line 321: child.wait() returns Ok once the child has exited, or fails.
EncWait(w) ==
    /\ encPc[w] = "wait"
    /\ \/ /\ child[encChild[w]] = "exited"
          /\ encPc' = [encPc EXCEPT ![w] = "join_stdio"]
          /\ Did(w, "wait", TRUE)
       \/ /\ encPc' = [encPc EXCEPT ![w] = "kill"]
          /\ Did(w, "wait", FALSE)
    /\ UNCHANGED <<ctlVars, callVars, encChild, child, inVars, watchVars, outVars, histVars>>

\* Lines 327 and 336: child.kill(), result ignored.
EncKill(w) ==
    /\ encPc[w] = "kill"
    /\ child' = [child EXCEPT ![encChild[w]] = "exited"]
    /\ encPc' = [encPc EXCEPT ![w] = "wait2"]
    /\ Did(w, "kill", TRUE)
    /\ UNCHANGED <<ctlVars, callVars, encChild, inVars, watchVars, outVars, histVars>>

\* Lines 328 and 337: the second child.wait(), result ignored.
EncWait2(w) ==
    /\ encPc[w] = "wait2"
    /\ encPc' = [encPc EXCEPT ![w] = "join_stdio"]
    /\ Did(w, "wait", TRUE)
    /\ UNCHANGED <<ctlVars, callVars, encChild, child, inVars, watchVars, outVars, histVars>>

\* Lines 343-344: join the stdout and stderr forwarders, whose line loops
\* (289-305) end when the child has closed its streams.
EncJoinStdio(w) ==
    /\ encPc[w] = "join_stdio"
    /\ child[w] = "exited"
    /\ encPc' = [encPc EXCEPT ![w] = "done"]
    /\ Did(w, "join", TRUE)
    /\ UNCHANGED <<ctlVars, callVars, encChild, child, inVars, watchVars, outVars, histVars>>

\* The encoder process exits (on the quit command, or on its own).
ChildExit(w) ==
    /\ child[w] \in {"running", "quitting"}
    /\ child' = [child EXCEPT ![w] = "exited"]
    /\ UNCHANGED <<ctlVars, callVars, encPc, encChild, childOps, inVars, watchVars, outVars, histVars>>

EncStep(w) ==
    \/ EncSpawn(w)
    \/ EncPoll(w)
    \/ EncTake(w)
    \/ EncQuit(w)
    \/ EncWait(w)
    \/ EncKill(w)
    \/ EncWait2(w)
    \/ EncJoinStdio(w)

\* --------------------------------------- input capture thread (420-515)
\* Line 427: rdev's listen either fails to subscribe and returns (the error
\* is discarded, the task returns Ok and the thread ends) or blocks for good,
\* calling the callback for every event.
InListen(w) ==
    /\ inPc[w] = "listen"
    /\ \E listen_ok \in BOOLEAN :
         inPc' = [inPc EXCEPT ![w] = IF listen_ok THEN "listening" ELSE "done"]
    /\ UNCHANGED <<ctlVars, callVars, encVars, cbVars, watchVars, outVars, histVars>>

\* The events rdev delivers in the lifecycle specifications: pointer moves
\* to the positions of Points, and one event of every other kind.
OsEvents ==
    {MouseMove(p) : p \in Points}
    \cup {ButtonPress([name |-> "Left", byte |-> 0]),
          ButtonRelease([name |-> "Left", byte |-> 0]),
          KeyPress([name |-> "KeyA", code |-> 0]),
          KeyRelease([name |-> "KeyA", code |-> 0]),
          Wheel(<<0, 1>>)}

\* The events that carry an action, with every payload.
ActionEvents ==
    {ButtonPress(b) : b \in Buttons}
    \cup {KeyPress(k) : k \in Keys}
    \cup {Wheel(d) : d \in WheelDeltas \X WheelDeltas}

\* The flag check with its early return left out.
StopFlagSet_Never == FALSE

\* Line 428: !is_recording.load(): the stop flag is set.
StopFlagSet == ~is_recording

\* The move test with pointer moves treated like any other event.
IsMove_Never(e) == FALSE

\* Line 442: the event is a pointer move.
IsMove(e) == e.kind = "MouseMove"

\* Lines 428-456: the callback up to the lock: return when the stop flag is
\* set or the clock gives no timestamp (which, once it happens, happens for
\* every later event); on a pointer move cache the scaled position and
\* return; else build the RecordingEvent from the cached position.
InDeliver(w, e, scale_factor, clock_ok) ==
    /\ inPc[w] = "listening"
    /\ cbPending[w] = NoEvent
    /\ delivered < MaxEvents
    /\ clock_over => ~clock_ok
    /\ delivered' = delivered + 1
    /\ IF StopFlagSet
       THEN UNCHANGED <<last_mouse_pos, cbPending, clock_over>>
       ELSE IF ~clock_ok
       THEN /\ clock_over' = TRUE
            /\ UNCHANGED <<last_mouse_pos, cbPending>>
       ELSE IF IsMove(e)
       THEN /\ last_mouse_pos' = [last_mouse_pos EXCEPT ![w] =
                                     <<e.x * scale_factor, e.y * scale_factor>>]
            /\ UNCHANGED <<cbPending, clock_over>>
       ELSE /\ cbPending' = [cbPending EXCEPT ![w] = RecordingEvent(e, last_mouse_pos[w])]
            /\ UNCHANGED <<last_mouse_pos, clock_over>>
    /\ lastMove' = IF is_recording /\ e.kind = "MouseMove"
                   THEN [lastMove EXCEPT ![w] = <<e.x * scale_factor, e.y * scale_factor>>]
                   ELSE lastMove
    /\ ignored' = IF is_recording THEN ignored ELSE ignored + 1
    /\ accepted' = IF is_recording /\ clock_ok /\ e.kind # "MouseMove"
                    THEN Append(accepted, RecordingEvent(e, last_mouse_pos[w]))
                    ELSE accepted
    /\ UNCHANGED <<ctlVars, callVars, encVars, inPc, watchVars, outVars, histVars>>

\* The match at lines 474-494: the kinds that fill an action and are POSTed.
Classified(k) == k \in {"ButtonPress", "KeyPress", "Wheel"}

\* Into<MouseAction> for Button (devents.rs 25-34).
MouseAction(b) ==
    IF b.name = "Unknown" THEN [name |-> "Other", byte |-> b.byte]
    ELSE [name |-> b.name, byte |-> 0]

\* Into<KeyboardActionKey> for Key (devents.rs 156-307): a named key with a
\* counterpart maps to it, Unknown(code) keeps its code, and every other key
\* becomes Unknown(0).
KeyboardActionKey(k) ==
    IF k.name = "KeyA" THEN [name |-> "A", code |-> 0]
    ELSE IF k.name \in {"Alt", "AltGr"} THEN [name |-> "Alt", code |-> 0]
    ELSE IF k.name = "Unknown" THEN [name |-> "Unknown", code |-> k.code]
    ELSE [name |-> "Unknown", code |-> 0]

\* i64 as i32 (lines 488-489): the low 32 bits, read as a signed number; a
\* value in the range of i32 is kept.
MaxI32 == 2147483647
MinI32 == -MaxI32 - 1
I64AsI32(v) ==
    IF MinI32 <= v /\ v <= MaxI32 THEN v
    ELSE ((v - MinI32) % (2 * (MaxI32 + 1))) + MinI32

\* The three optional actions of a CreateDeventRequest for the recorded
\* event ev (lines 474-494); an Option is a sequence of no or one element.
MouseActionOf(ev) ==
    IF ev.kind = "ButtonPress" THEN <<MouseAction(ev.event.button)>> ELSE <<>>
KeyboardActionOf(ev) ==
    IF ev.kind = "KeyPress"
    THEN <<[key |-> KeyboardActionKey(ev.event.key), duration |-> 100]>> ELSE <<>>
ScrollActionOf(ev) ==
    IF ev.kind = "Wheel"
    THEN <<[x |-> I64AsI32(ev.event.delta_x), y |-> I64AsI32(ev.event.delta_y)]>> ELSE <<>>

\* DeventRequest without the session's identifier.
DeventRequest_NoId(s, ev) ==
    [endpoint |-> "devents/create",
     session_id |-> None,
     mouse_action |-> MouseActionOf(ev),
     keyboard_action |-> KeyboardActionOf(ev),
     scroll_action |-> ScrollActionOf(ev),
     mouse_x |-> AsI32(ev.mouse_x),
     mouse_y |-> AsI32(ev.mouse_y)]

\* DeventRequest with the duration of a key press left at 0.
DeventRequest_NoDuration(s, ev) ==
    [endpoint |-> "devents/create",
     session_id |-> s.id,
     mouse_action |-> MouseActionOf(ev),
     keyboard_action |-> IF ev.kind = "KeyPress"
                         THEN <<[key |-> KeyboardActionKey(ev.event.key), duration |-> 0]>>
                         ELSE <<>>,
     scroll_action |-> ScrollActionOf(ev),
     mouse_x |-> AsI32(ev.mouse_x),
     mouse_y |-> AsI32(ev.mouse_y)]

\* CreateDeventRequest (lines 35-43) as built at lines 464-492 for the
\* recorded event ev, without its timestamp: the action of the event's kind
\* is filled, the other two are absent.
DeventRequest(s, ev) ==
    [endpoint |-> "devents/create",
     session_id |-> s.id,
     mouse_action |-> MouseActionOf(ev),
     keyboard_action |-> KeyboardActionOf(ev),
     scroll_action |-> ScrollActionOf(ev),
     mouse_x |-> AsI32(ev.mouse_x),
     mouse_y |-> AsI32(ev.mouse_y)]

\* InAppend with the early return of line 493 left out: a request is
\* spawned for every appended event, classified or not.
InAppend_PostAll(w) ==
    /\ cbPending[w] # NoEvent
    /\ sessionLock = Free
    /\ cbPending' = [cbPending EXCEPT ![w] = NoEvent]
    /\ IF IsSome(session)
       THEN /\ session' = [session EXCEPT !.events = Append(@, cbPending[w])]
            /\ requests' = Append(requests, DeventRequest(session, cbPending[w]))
       ELSE UNCHANGED <<session, requests>>
    /\ UNCHANGED <<sessionLock, is_recording, ffmpeg_handle, ffmpegHandleLock,
                   ffmpegHandlePoisoned, event_handle, eventHandleLock, ffmpeg_child, nextId>>
    /\ UNCHANGED <<callVars, encVars, inPc, last_mouse_pos, delivered, clock_over, lastMove,
                   ignored, accepted, watchVars, emitted, events_csv, devent_done, histVars>>

\* InAppend with the event put at the front of the buffer.
InAppend_Prepend(w) ==
    /\ cbPending[w] # NoEvent
    /\ sessionLock = Free
    /\ cbPending' = [cbPending EXCEPT ![w] = NoEvent]
    /\ IF IsSome(session)
       THEN /\ session' = [session EXCEPT !.events = <<cbPending[w]>> \o @]
            /\ requests' = IF Classified(cbPending[w].kind)
                            THEN Append(requests, DeventRequest(session, cbPending[w]))
                            ELSE requests
       ELSE UNCHANGED <<session, requests>>
    /\ UNCHANGED <<sessionLock, is_recording, ffmpeg_handle, ffmpegHandleLock,
                   ffmpegHandlePoisoned, event_handle, eventHandleLock, ffmpeg_child, nextId>>
    /\ UNCHANGED <<callVars, encVars, inPc, last_mouse_pos, delivered, clock_over, lastMove,
                   ignored, accepted, watchVars, emitted, events_csv, devent_done, histVars>>

\* Lines 460-510: lock the slot; if a session is there push the event, and
\* for a classified kind spawn the POST of that one event on the runtime.
InAppend(w) ==
    /\ cbPending[w] # NoEvent
    /\ sessionLock = Free
    /\ cbPending' = [cbPending EXCEPT ![w] = NoEvent]
    /\ IF IsSome(session)
       THEN /\ session' = [session EXCEPT !.events = Append(@, cbPending[w])]
            /\ requests' = IF Classified(cbPending[w].kind)
                            THEN Append(requests, DeventRequest(session, cbPending[w]))
                            ELSE requests
       ELSE UNCHANGED <<session, requests>>
    /\ UNCHANGED <<sessionLock, is_recording, ffmpeg_handle, ffmpegHandleLock,
                   ffmpegHandlePoisoned, event_handle, eventHandleLock, ffmpeg_child, nextId>>
    /\ UNCHANGED <<callVars, encVars, inPc, last_mouse_pos, delivered, clock_over, lastMove,
                   ignored, accepted, watchVars, emitted, events_csv, devent_done, histVars>>

\* Lines 497-509: one of the spawned POST tasks that have not completed
\* sends its request and logs the result, success or failure.
DeventSend ==
    /\ devent_done.ok + devent_done.failed < Len(requests)
    /\ \E send_ok \in BOOLEAN :
         devent_done' = IF send_ok THEN [devent_done EXCEPT !.ok = @ + 1]
                                   ELSE [devent_done EXCEPT !.failed = @ + 1]
    /\ UNCHANGED <<ctlVars, callVars, encVars, inVars, watchVars, emitted, requests,
                   events_csv, histVars>>

\* ------------------------------------------------ segment list (173-179)
\* The characters of the segment list the encoder writes (-segment_list_type
\* csv): one row "filename,start,end" per completed segment.  A file name
\* and a time are one token each, the times are in whole seconds.
Name(k) == [t |-> "name", v |-> k]
Comma == [t |-> "comma", v |-> 0]
Number(n) == [t |-> "number", v |-> n]
Newline == [t |-> "nl", v |-> 0]

\* The row of segment k, which runs from SegmentTime * (k-1) to SegmentTime * k.
SegmentRow(k) ==
    <<Name(k), Comma, Number(SegmentTime * (k - 1)), Comma, Number(SegmentTime * k), Newline>>

RECURSIVE SegmentList(_)
SegmentList(n) == IF n = 0 THEN <<>> ELSE SegmentList(n - 1) \o SegmentRow(n)

\* The bytes of bs from offset pos up to and including the next newline, or
\* up to the end of bs when there is none: what read_line returns.
RECURSIVE ReadLine(_, _)
ReadLine(bs, pos) ==
    IF pos >= Len(bs) THEN <<>>
    ELSE IF bs[pos + 1] = Newline THEN <<Newline>>
    ELSE <<bs[pos + 1]>> \o ReadLine(bs, pos + 1)

\* The encoder creates the segment list of its session.
ChildCreateList(w) ==
    /\ child[w] = "running"
    /\ ~segments_csv[w].exists
    /\ segments_csv' = [segments_csv EXCEPT ![w].exists = TRUE]
    /\ UNCHANGED <<ctlVars, callVars, encVars, inVars, watchPc, last_position, handed,
                   uploads, outVars, histVars>>

\* The encoder appends to the segment list: the next n bytes of the list, at
\* most up to the end of the row it is writing (a write may be seen before
\* the row is complete).  A write ends after a file name or a separator: a
\* row cut after a time leads to the same upload tasks as the row cut before
\* that time (after the start) or the row written whole (after the end).
ChildWrite(w) ==
    /\ child[w] \in {"running", "quitting"}
    /\ segments_csv[w].exists
    /\ LET all == SegmentList(MaxSegments)
           len == Len(segments_csv[w].bytes)
       IN  /\ len < Len(all)
           /\ \E n \in 1..Len(ReadLine(all, len)) :
                 /\ all[len + n].t # "number"
                 /\ segments_csv' = [segments_csv EXCEPT ![w].bytes = SubSeq(all, 1, len + n)]
    /\ UNCHANGED <<ctlVars, callVars, encVars, inVars, watchPc, last_position, handed,
                   uploads, outVars, histVars>>

\* --------------------------------------------- monitor_segments (517-602)
\* str::trim (line 538): the line without its newline.
Trim(line) ==
    IF line # <<>> /\ line[Len(line)] = Newline THEN SubSeq(line, 1, Len(line) - 1) ELSE line

\* split(',') (line 538): the fields between the commas; an empty line has
\* one empty field.
RECURSIVE Split(_)
Split(line) ==
    IF \E i \in 1..Len(line) : line[i] = Comma
    THEN LET i == CHOOSE j \in 1..Len(line) :
                      line[j] = Comma /\ \A h \in 1..(j - 1) : line[h] # Comma
         IN  <<SubSeq(line, 1, i - 1)>> \o Split(SubSeq(line, i + 1, Len(line)))
    ELSE <<line>>

\* parse::<f64>().unwrap_or_default() (lines 541-542): the value of a field
\* that is a number, 0 for anything else (an empty field, a file name).
ParseF64(field) ==
    IF Len(field) = 1 /\ field[1].t = "number" THEN field[1].v ELSE 0

\* The number of the row that the byte at offset pos of bs lies in.
RowAt(bs, pos) == Cardinality({i \in 1..pos : bs[i] = Newline}) + 1

\* What the server answered to the POST of an upload task: nothing yet, or
\* a response with its status class and whether its body parses as a URL.
NoReply == [status |-> "none", url_ok |-> FALSE]
Replies == [status : {"2xx", "non2xx"}, url_ok : BOOLEAN]

\* Lines 540-583: the upload task spawned for a row of three fields, with
\* the SaveRecordingRequest (lines 46-51, 551-556) it will POST to
\* recordings/fetch_save_url; (end - start) as u64 saturates at 0.  row is
\* the (ghost) number of the row the line was read from.  step is where the
\* task is in lines 549-582, reply what its POST got, put what became of
\* its PUT.
UploadTask(w, parts, row) ==
    [endpoint |-> "recordings/fetch_save_url",
     session_id |-> w,
     filename |-> parts[1],
     start_timestamp_nanos |-> ParseF64(parts[2]),
     duration_ms |-> IF ParseF64(parts[3]) > ParseF64(parts[2])
                     THEN ParseF64(parts[3]) - ParseF64(parts[2]) ELSE 0,
     row |-> row,
     step |-> "post",
     reply |-> NoReply,
     put |-> "none"]

\* WatchOpen seeking to the start of the list instead of last_position.
WatchOpen_FromStart(w) ==
    /\ watchPc[w] = "sleep"
    /\ IF segments_csv[w].exists
       THEN /\ watchPc' = [watchPc EXCEPT ![w] = "read"]
            /\ last_position' = [last_position EXCEPT ![w] = 0]
       ELSE /\ watchPc' = [watchPc EXCEPT ![w] = "panicked"]
            /\ UNCHANGED last_position
    /\ handed' = [handed EXCEPT ![w] = 0]
    /\ UNCHANGED <<ctlVars, callVars, encVars, inVars, segments_csv, uploads, outVars,
                   histVars>>

\* WatchOpen with the loop of line 525 ending when the stop flag is set.
WatchOpen_UntilStopped(w) ==
    /\ watchPc[w] = "sleep"
    /\ IF ~is_recording
       THEN watchPc' = [watchPc EXCEPT ![w] = "done"]
       ELSE IF segments_csv[w].exists
       THEN watchPc' = [watchPc EXCEPT ![w] = "read"]
       ELSE watchPc' = [watchPc EXCEPT ![w] = "panicked"]
    /\ handed' = [handed EXCEPT ![w] = 0]
    /\ UNCHANGED <<ctlVars, callVars, encVars, inVars, last_position, segments_csv, uploads,
                   outVars, histVars>>

\* Lines 526-529: after the sleep open the segment list (the unwrap panics
\* when it does not exist) and seek to last_position.
WatchOpen(w) ==
    /\ watchPc[w] = "sleep"
    /\ IF segments_csv[w].exists
       THEN watchPc' = [watchPc EXCEPT ![w] = "read"]
       ELSE watchPc' = [watchPc EXCEPT ![w] = "panicked"]
    /\ handed' = [handed EXCEPT ![w] = 0]
    /\ UNCHANGED <<ctlVars, callVars, encVars, inVars, last_position, segments_csv, uploads,
                   outVars, histVars>>

\* Lines 532-600: one turn of the inner loop: read a line; at the end of the
\* file or on a read error leave the scan; else spawn an upload task when
\* the line has three fields, and move last_position past the line.
WatchReadLine(w) ==
    /\ watchPc[w] = "read"
    /\ \E read_ok \in BOOLEAN :
         LET line == ReadLine(segments_csv[w].bytes, last_position[w])
             parts == Split(Trim(line))
         IN  IF ~read_ok \/ line = <<>>
             THEN /\ watchPc' = [watchPc EXCEPT ![w] = "sleep"]
                  /\ UNCHANGED <<last_position, handed, uploads>>
             ELSE /\ IF Len(parts) = 3
                     THEN /\ uploads' = Append(uploads,
                                 UploadTask(w, parts,
                                     RowAt(segments_csv[w].bytes, last_position[w])))
                          /\ handed' = [handed EXCEPT ![w] = @ + 1]
                     ELSE UNCHANGED <<uploads, handed>>
                  /\ last_position' = [last_position EXCEPT ![w] = @ + Len(line)]
                  /\ UNCHANGED watchPc
    /\ UNCHANGED <<ctlVars, callVars, encVars, inVars, segments_csv, outVars, histVars>>

WatchStep(w) == WatchOpen(w) \/ WatchReadLine(w)

\* ------------------------------------------- upload task (lines 548-583)
\* The encoder has written the segment file a task's file name refers to.
SegmentFileExists(t) == \E k \in 1..MaxSegments : t.filename = <<Name(k)>>

\* Lines 549-562: the POST to recordings/fetch_save_url and the reading of
\* the response body.  A transport error is logged (line 581) and ends the
\* task; any response, whatever its status, goes on to res.text(), whose
\* unwrap panics the task when the body cannot be read.
UploadPost(i) ==
    /\ i \in 1..Len(uploads)
    /\ uploads[i].step = "post"
    /\ \/ uploads' = [uploads EXCEPT ![i].step = "post_failed"]
       \/ uploads' = [uploads EXCEPT ![i].step = "panicked"]
       \/ \E r \in Replies : uploads' = [uploads EXCEPT ![i].step = "put", ![i].reply = r]
    /\ UNCHANGED <<ctlVars, callVars, encVars, inVars, watchPc, last_position, handed,
                   segments_csv, outVars, histVars>>

\* UploadPut run by the watcher thread itself instead of a spawned task: a
\* failed unwrap unwinds the watcher.
UploadPut_InWatcher(i) ==
    /\ i \in 1..Len(uploads)
    /\ uploads[i].step = "put"
    /\ \E file_ok, put_ok \in BOOLEAN :
         IF ~(file_ok /\ SegmentFileExists(uploads[i]))
         THEN /\ uploads' = [uploads EXCEPT ![i].step = "panicked", ![i].reply = NoReply]
              /\ watchPc' = [watchPc EXCEPT ![uploads[i].session_id] = "panicked"]
         ELSE /\ uploads' = [uploads EXCEPT ![i].step = "done", ![i].reply = NoReply,
                                 ![i].put = IF ~uploads[i].reply.url_ok THEN "invalid_url"
                                            ELSE IF put_ok THEN "ok" ELSE "failed"]
              /\ UNCHANGED watchPc
    /\ UNCHANGED <<ctlVars, callVars, encVars, inVars, last_position, handed,
                   segments_csv, outVars, histVars>>

\* Lines 564-579: open and read the segment file (both unwrapped: a failure
\* panics the task), then PUT its content to the URL that is the body of
\* the response.  A body that is not a URL makes send() fail before any
\* request is made; else the PUT is issued and succeeds or fails; both
\* failures are logged (line 578).  The response is dropped with the task.
UploadPut(i) ==
    /\ i \in 1..Len(uploads)
    /\ uploads[i].step = "put"
    /\ \E file_ok, put_ok \in BOOLEAN :
         uploads' =
            IF ~(file_ok /\ SegmentFileExists(uploads[i]))
            THEN [uploads EXCEPT ![i].step = "panicked", ![i].reply = NoReply]
            ELSE [uploads EXCEPT ![i].step = "done", ![i].reply = NoReply,
                                 ![i].put = IF ~uploads[i].reply.url_ok THEN "invalid_url"
                                            ELSE IF put_ok THEN "ok" ELSE "failed"]
    /\ UNCHANGED <<ctlVars, callVars, encVars, inVars, watchPc, last_position, handed,
                   segments_csv, outVars, histVars>>

UploadStep(i) == UploadPost(i) \/ UploadPut(i)

\* ------------------------------------------------------- specifications
\* The steps of the calls in progress.
CallStep(c) ==
    \/ StartNew(c)
    \/ StartSetFlag(c)
    \/ StartSpawnEncoder(c)
    \/ StartStoreFfmpegHandle(c)
    \/ StartSpawnCapture(c)
    \/ StartStoreEventHandle(c)
    \/ StartEmit(c)
    \/ StopTakeFfmpegHandle(c)
    \/ StopJoinFfmpeg(c)
    \/ StopTakeEventHandle(c)
    \/ StopJoinEvent(c)
    \/ StopLock(c)
    \/ StopSave(c)
    \/ StopEmit(c)

\* The steps of the worker threads and of the encoder process.
WorkerStep(w) ==
    \/ EncStep(w)
    \/ ChildExit(w)
    \/ InListen(w)

\* The controller's lifecycle: up to NumCallers concurrent start / stop calls
\* with the workers they spawn; the listener delivers no input.
Next ==
    \/ \E c \in Calls : StartCheck(c) \/ StopSetFlag(c)
    \/ \E c \in Calls : CallStep(c)
    \/ \E w \in Sids : WorkerStep(w)

Spec == Init /\ [][Next]_vars

\* Input capture: the start / stop calls come one after the other, and the
\* listener delivers up to MaxEvents events at any time.
NoCallInFlight == \A d \in Calls : ~InFlight(d)

NextInput ==
    \/ \E c \in Calls : NoCallInFlight /\ (StartCheck(c) \/ StopSetFlag(c))
    \/ \E c \in Calls : CallStep(c)
    \/ \E w \in Sids : WorkerStep(w)
    \/ \E w \in Sids : \E e \in OsEvents, sf \in ScaleFactors, clock_ok \in BOOLEAN :
          InDeliver(w, e, sf, clock_ok)
    \/ \E w \in Sids : InAppend(w)

SpecInput == Init /\ [][NextInput]_vars

\* The lifecycle with the encoder writing its segment list and the segment
\* watcher scanning it; the calls are made one after the other, a start
\* when there is no session and a stop while the session is recording.  The
\* input thread, which shares nothing with the watcher, is not scheduled
\* here: a stop gets as far as the join of line 399.
StartStep(c) ==
    \/ StartNew(c)
    \/ StartSetFlag(c)
    \/ StartSpawnEncoder(c)
    \/ StartStoreFfmpegHandle(c)
    \/ StartSpawnCapture(c)
    \/ StartStoreEventHandle(c)
    \/ StartEmit(c)

NextWatch ==
    \/ \E c \in Calls : NoCallInFlight /\ ~IsSome(session) /\ StartCheck(c)
    \/ \E c \in Calls : NoCallInFlight /\ is_recording /\ StopSetFlag(c)
    \/ \E c \in Calls : StartStep(c)
    \/ \E c \in Calls : StopTakeFfmpegHandle(c) \/ StopJoinFfmpeg(c) \/ StopTakeEventHandle(c)
    \/ \E w \in Sids : EncStep(w) \/ ChildExit(w)
    \/ \E w \in Sids : ChildCreateList(w) \/ ChildWrite(w)
    \/ \E w \in Sids : WatchStep(w)

SpecWatch == Init /\ [][NextWatch]_vars

\* A recording with its uploads: one start; once it has returned Ok with the
\* encoder running, the listener subscribed and the segment list created,
\* the encoder writes whole rows of its segment list and the listener
\* delivers key presses; the watcher scans the list, and the upload tasks
\* and the event POSTs run on the runtime.
Settled ==
    /\ NoCallInFlight /\ calls = 1 /\ res[1] = "Ok"
    /\ encPc[1] = "poll" /\ inPc[1] = "listening"
    /\ segments_csv[1].exists

NextUpload ==
    \/ \E c \in Calls : NoCallInFlight /\ ~IsSome(session) /\ StartCheck(c)
    \/ \E c \in Calls : StartStep(c)
    \/ \E w \in Sids : EncSpawn(w) \/ InListen(w)
    \/ \E w \in Sids : ChildCreateList(w)
    \/ \E w \in Sids :
          /\ Settled
          /\ ChildWrite(w)
          /\ segments_csv'[w].bytes[Len(segments_csv'[w].bytes)] = Newline
    \/ \E w \in Sids : WatchStep(w)
    \/ \E i \in 1..MaxSegments : UploadStep(i)
    \/ \E w \in Sids, sf \in ScaleFactors :
          Settled /\ InDeliver(w, KeyPress([name |-> "KeyA", code |-> 0]), sf, TRUE)
    \/ \E w \in Sids : InAppend(w)
    \/ DeventSend

SpecUpload == Init /\ [][NextUpload]_vars

\* A recording and its shutdown: a start when there is no session and a
\* stop while the session is recording, one after the other, run to their
\* end; the encoder writes whole rows of its segment list, until it exits,
\* and the watcher scans it.
WritesRow(w) ==
    /\ ChildWrite(w)
    /\ segments_csv'[w].bytes[Len(segments_csv'[w].bytes)] = Newline

NextShutdown ==
    \/ \E c \in Calls : NoCallInFlight /\ ~IsSome(session) /\ StartCheck(c)
    \/ \E c \in Calls : NoCallInFlight /\ is_recording /\ StopSetFlag(c)
    \/ \E c \in Calls : CallStep(c)
    \/ \E w \in Sids : WorkerStep(w)
    \/ \E w \in Sids : ChildCreateList(w)
    \/ \E w \in Sids : WritesRow(w)
    \/ \E w \in Sids : WatchStep(w)

SpecShutdown == Init /\ [][NextShutdown]_vars

\* A recording with its input events: one start; once it has returned Ok
\* the listener delivers up to MaxEvents events of any kind and payload.
NextDevent ==
    \/ \E c \in Calls : NoCallInFlight /\ ~IsSome(session) /\ StartCheck(c)
    \/ \E c \in Calls : StartStep(c)
    \/ \E w \in Sids : EncSpawn(w) \/ InListen(w)
    \/ \E w \in Sids : ChildCreateList(w)
    \/ \E w \in Sids, e \in OsEvents \cup ActionEvents, sf \in ScaleFactors :
          Settled /\ InDeliver(w, e, sf, TRUE)
    \/ \E w \in Sids : InAppend(w)

SpecDevent == Init /\ [][NextDevent]_vars

\* ------------------------------------------------------------ properties
\* The sessions created so far, and the worker threads spawned so far.
SessionsCreated == nextId - 1
EncodersSpawned == {w \in Sids : encPc[w] # "none"}
ListenersSpawned == {w \in Sids : inPc[w] # "none"}
WatchersSpawned == {w \in Sids : watchPc[w] # "none"}
NoStopYet == \A c \in Calls : op[c] # "stop"

\* C1: when the first two calls are both start (the slot is empty when they
\* begin), then under every interleaving exactly one of them returns Ok and
\* the other returns AlreadyActive (unless directory creation failed), and as
\* long as no stop is invoked only one session has been created and only one
\* encoder supervisor, one input capture thread and one segment watcher have
\* been spawned.
C1_ExactlyOneStartWins ==
    (op[1] = "start" /\ op[2] = "start") =>
        /\ (Finished(1) /\ Finished(2) /\ "IoError" \notin {res[1], res[2]})
              => {res[1], res[2]} = {"Ok", "AlreadyActive"}
        /\ ~(res[1] = "Ok" /\ res[2] = "Ok")
        /\ NoStopYet =>
              /\ SessionsCreated <= 1
              /\ Cardinality(EncodersSpawned) <= 1
              /\ Cardinality(ListenersSpawned) <= 1
              /\ Cardinality(WatchersSpawned) <= 1

\* C1 witness: two start calls that overlapped have both finished, one with
\* Ok and one with AlreadyActive, and the one set of workers is up.
C1_Witness ==
    /\ op[1] = "start" /\ op[2] = "start" /\ ~alone[2]
    /\ Finished(1) /\ Finished(2)
    /\ res[1] = "Ok" /\ res[2] = "AlreadyActive"
    /\ NoStopYet
    /\ SessionsCreated = 1
    /\ EncodersSpawned = {1} /\ ListenersSpawned = {1} /\ WatchersSpawned = {1}

\* C2: a start call that finds the slot occupied returns AlreadyActive in
\* that same step and changes nothing: the session in the slot (identifier,
\* output directory, event buffer), the stop flag, the worker handles, the
\* workers and the notifications emitted are as before.
C2_RefusedStartChangesNothing ==
    [][\A c \in Calls :
          (pc[c] = "new" /\ op'[c] = "start" /\ IsSome(session)) =>
              /\ pc'[c] = "done"
              /\ res'[c] = "AlreadyActive"
              /\ session' = session
              /\ is_recording' = is_recording
              /\ <<ffmpeg_handle, event_handle, ffmpeg_child>>' =
                     <<ffmpeg_handle, event_handle, ffmpeg_child>>
              /\ <<encPc, child, inPc, watchPc>>' = <<encPc, child, inPc, watchPc>>
              /\ emitted' = emitted
              /\ requests' = requests]_vars

\* C2 witness: a start was refused while the session of an earlier start,
\* still recording, is in the slot.
C2_Witness ==
    \E c \in Calls :
        /\ c > 1
        /\ op[c] = "start" /\ res[c] = "AlreadyActive"
        /\ op[1] = "start" /\ res[1] = "Ok"
        /\ session.id = mySid[1]
        /\ is_recording

\* Call c is a stop that ran on the session of the start just before it: the
\* start c-1 returned Ok and no other call was in progress when c began.
StopOfRunning(c) ==
    /\ c > 1
    /\ op[c - 1] = "start" /\ res[c - 1] = "Ok"
    /\ op[c] = "stop" /\ alone[c]

\* The controller states of the session state machine, read off the calls:
\* Idle before the first call and after a stop of a running session has
\* returned with no later call; Starting, Running and Stopping from the
\* creation of the session by a start until that stop returns.
Idle ==
    /\ NoCallInFlight
    /\ \/ calls = 0
       \/ StopOfRunning(calls) /\ res[calls] = "Ok"
Starting == calls = 1 /\ op[1] = "start" /\ pc[1] \notin {"new", "s_new", "done"}
Running == calls = 1 /\ op[1] = "start" /\ res[1] = "Ok"
Stopping == calls = 2 /\ StopOfRunning(2) /\ InFlight(2)

\* C3: after a start that returned Ok and a stop that then returned, the
\* slot is empty; the slot is occupied while the controller is Starting,
\* Running or Stopping and is empty whenever it is Idle.
C3_SlotEmptyWhenIdle ==
    /\ Idle => ~IsSome(session)
    /\ (Starting \/ Running \/ Stopping) => IsSome(session)

\* The half of C3 that the code keeps: the slot is occupied in Starting,
\* Running and Stopping.
C3_OccupiedWhileActive == (Starting \/ Running \/ Stopping) => IsSome(session)

\* C4: after a start/stop cycle has completed, a further start does not
\* return AlreadyActive, and when it returns Ok its session has a fresh
\* identifier.
C4_RestartSucceeds ==
    \A c \in Calls :
        (/\ c > 2
         /\ StopOfRunning(c - 1) /\ res[c - 1] = "Ok"
         /\ op[c] = "start" /\ alone[c] /\ Finished(c))
        => /\ res[c] \in {"Ok", "IoError"}
           /\ res[c] = "Ok" => mySid[c] # mySid[c - 2]

\* The threads and the child process of session w that are still alive.
EncoderAlive(w) == encPc[w] \notin {"none", "done", "panicked"}
ListenerAlive(w) == inPc[w] \notin {"none", "done"}
ChildAlive(w) == child[w] \in {"running", "quitting"}

\* The sessions created by the start calls that began before call c.
SessionsBefore(c) == {mySid[d] : d \in {e \in Calls : e < c /\ op[e] = "start"}} \ {None}

\* C5: under every interleaving of start and stop calls, in the step in
\* which a stop call returns Ok, the encoder supervisor and the input capture
\* thread spawned by the start calls that began before it have terminated and
\* their encoder child process is not running.
C5_StopOkMeansWorkersGone ==
    [][\A c \in Calls :
          (op[c] = "stop" /\ pc[c] # "done" /\ pc'[c] = "done" /\ res'[c] = "Ok") =>
              \A w \in SessionsBefore(c) :
                  ~EncoderAlive(w)' /\ ~ListenerAlive(w)' /\ ~ChildAlive(w)']_vars

\* C8: when the encoder process of a session could not be spawned, the
\* start call that created the session does not return Ok and no
\* recording_started is emitted for the session.
C8_SpawnFailureFailsStart ==
    \A c \in Calls :
        (op[c] = "start" /\ mySid[c] # None /\ encPc[mySid[c]] = "panicked") =>
            /\ res[c] # "Ok"
            /\ \A i \in 1..Len(emitted) :
                  emitted[i] # [name |-> "recording_started", sid |-> mySid[c]]

\* C9: in the step in which a start returns an error other than
\* AlreadyActive, or a stop returns an error, the slot is empty (no other
\* call having run beside it that could have filled the slot meanwhile).
C9_NoResidueAfterError ==
    [][\A c \in Calls :
          (/\ pc[c] # "done" /\ pc'[c] = "done"
           /\ alone'[c] /\ calls' = c
           /\ \/ op'[c] = "start" /\ res'[c] = "IoError"
              \/ op'[c] = "stop" /\ res'[c] \in {"IoError", "NotActive"})
          => ~IsSome(session')]_vars

\* C10: of two successive stop calls with no start between them or beside
\* them, the second returns NotActive and none of its steps emits a
\* notification, writes the event file or changes the slot or the event
\* buffer.
C10_SecondStopIsInert ==
    [][\A c \in Calls :
          (/\ c > 1
           /\ op[c - 1] = "stop" /\ alone[c - 1]
           /\ res[c - 1] \in {"Ok", "NotActive"}
           /\ op'[c] = "stop" /\ alone'[c] /\ calls' = c
           /\ pc'[c] # pc[c])
          => /\ emitted' = emitted
             /\ events_csv' = events_csv
             /\ session' = session
             /\ pc'[c] = "done" => res'[c] = "NotActive"]_vars

\* ---------------------------------------------------- fair scheduling
\* Every thread that can take a step eventually takes one, and an encoder
\* that was sent the quit command exits.  The listener's subscription is the
\* operating system's: nothing makes a blocking listen return.
ChildExitsOnQuit(w) == child[w] = "quitting" /\ ChildExit(w)

Fairness ==
    /\ \A c \in Calls : WF_vars(CallStep(c))
    /\ \A w \in Sids : WF_vars(EncStep(w))
    /\ \A w \in Sids : WF_vars(InListen(w))
    /\ \A w \in Sids : WF_vars(ChildExitsOnQuit(w))

SpecFair == Spec /\ Fairness

\* The same scheduling for calls made one after the other.
NextCalls ==
    \/ \E c \in Calls : NoCallInFlight /\ (StartCheck(c) \/ StopSetFlag(c))
    \/ \E c \in Calls : CallStep(c)
    \/ \E w \in Sids : WorkerStep(w)

SpecCallsFair == Init /\ [][NextCalls]_vars /\ Fairness

\* C6: a stop call on a Running session (the start before it returned Ok and
\* no other call was in progress when it began) eventually ends, also when
\* the listener never returns.
C6_StopEventuallyReturns ==
    \A c \in Calls : (StopOfRunning(c) /\ InFlight(c)) ~> Finished(c)

\* The requests made to the event-ingest endpoint.
DeventRequests == SelectSeq(requests, LAMBDA r : r.endpoint = "devents/create")
\* The buffered events that carry an action of an Input Event (spec section
\* 3): button presses, key presses and wheel events.
IsAction(ev) == ev.kind \in {"ButtonPress", "KeyPress", "Wheel"}
\* The action a request carries, as the kind of event it was built from.
ActionOf(r) ==
    IF r.mouse_action # <<>> /\ r.keyboard_action = <<>> /\ r.scroll_action = <<>>
    THEN "ButtonPress"
    ELSE IF r.keyboard_action # <<>> /\ r.mouse_action = <<>> /\ r.scroll_action = <<>>
    THEN "KeyPress"
    ELSE IF r.scroll_action # <<>> /\ r.mouse_action = <<>> /\ r.keyboard_action = <<>>
    THEN "Wheel"
    ELSE "none"
\* What a request holds of a recorded event: its action and the whole part
\* of its pointer position.
Submitted(ev) == [kind |-> ev.kind, mouse_x |-> AsI32(ev.mouse_x), mouse_y |-> AsI32(ev.mouse_y)]
\* What a request holds, in the same form.
EventOf(r) == [kind |-> ActionOf(r), mouse_x |-> r.mouse_x, mouse_y |-> r.mouse_y]

C11_StopWithoutSession ==
    \A c \in Calls :
        (op[c] = "stop" /\ Finished(c) /\ SessionsCreated = 0) =>
            /\ res[c] = "NotActive"
            /\ emitted = <<>>
            /\ session = NoSession
            /\ EncodersSpawned = {} /\ ListenersSpawned = {} /\ WatchersSpawned = {}

\* C11 witness: the first call was a stop and it has returned NotActive with
\* no session created.
C11_Witness ==
    /\ op[1] = "stop" /\ res[1] = "NotActive"
    /\ SessionsCreated = 0
    /\ session = NoSession

\* C12: every recording_started in the emitted notifications was emitted by a
\* start call that returned Ok, and every recording_complete is preceded by
\* the recording_started of the same session.
C12_StartedBeforeComplete ==
    /\ \A i \in 1..Len(emitted) :
          emitted[i].name = "recording_started" =>
              \E c \in Calls : op[c] = "start" /\ res[c] = "Ok" /\ mySid[c] = emitted[i].sid
    /\ \A i \in 1..Len(emitted) :
          emitted[i].name = "recording_complete" =>
              \E j \in 1..(i - 1) :
                  emitted[j] = [name |-> "recording_started", sid |-> emitted[i].sid]

\* C13: over all scans the watcher spawns at most one upload task (whose
\* first step is the fetch_save_url POST) for any row of a session's segment
\* list, and its read position last_position never decreases.
C13_AtMostOncePerRow ==
    /\ [](\A i, j \in 1..Len(uploads) :
             (i # j /\ uploads[i].session_id = uploads[j].session_id)
                 => uploads[i].row # uploads[j].row)
    /\ [][\A w \in Sids : last_position'[w] >= last_position[w]]_vars

\* C13 witness: the encoder has listed all its segments, the watcher has read
\* the whole list over its scans and is between two scans, and one upload
\* task was spawned for each row.
C13_Witness ==
    \E w \in Sids :
        /\ segments_csv[w].bytes = SegmentList(MaxSegments)
        /\ last_position[w] = Len(SegmentList(MaxSegments))
        /\ watchPc[w] = "sleep"
        /\ Len(uploads) = MaxSegments
        /\ \A k \in 1..MaxSegments : uploads[k].row = k /\ uploads[k].filename = <<Name(k)>>

\* C14: in a single scan the watcher hands at most one segment to the
\* Uploader, even when several segments completed since the previous scan
\* (every task spawned so far is for a completely written row).
C14_OneUploadPerScan ==
    \A w \in Sids :
        (\A i \in 1..Len(uploads) :
            /\ uploads[i].filename = <<Name(uploads[i].row)>>
            /\ uploads[i].duration_ms = SegmentTime)
        => handed[w] <= 1

\* C15: the session's event buffer only ever holds button-press, key-press
\* and wheel events; releases and other unclassified events are not appended.
C15_BufferHoldsOnlyActions ==
    \A i \in 1..Len(session.events) : IsAction(session.events[i])

C17_MoveOnlyUpdatesCache ==
    /\ [][lastMove' # lastMove =>
            UNCHANGED <<cbPending, ctlVars, callVars, encVars, inPc, watchVars, outVars>>]_vars
    /\ [](/\ \A i \in 1..Len(session.events) : session.events[i].kind # "MouseMove"
          /\ \A w \in Sids : cbPending[w].kind # "MouseMove")

\* C17 witness: the one event delivered so far was a pointer move, delivered
\* while recording: the cache holds its position, the buffer is empty and no
\* request was made.
C17_Witness ==
    /\ IsSome(session) /\ is_recording
    /\ delivered = 1
    /\ last_mouse_pos[session.id] # <<0, 0>>
    /\ session.events = <<>> /\ requests = <<>>
    /\ cbPending[session.id] = NoEvent

\* C18: every request made to devents/create carries the identifier of the
\* session in the slot, which is also the session whose events.csv gets the
\* buffer; and the identifier of the session in the slot never changes.
C18_SessionIdStable ==
    /\ [](/\ \A i \in 1..Len(DeventRequests) :
                IsSome(session) /\ DeventRequests[i].session_id = session.id
          /\ \A w \in Sids : events_csv[w].written => w = session.id)
    /\ [][IsSome(session) => session'.id = session.id]_vars

\* C18 witness: two events of the session were submitted, both under the
\* identifier the session got from start.
C18_Witness ==
    /\ Len(DeventRequests) = 2
    /\ \E c \in Calls : op[c] = "start" /\ res[c] = "Ok" /\ mySid[c] = session.id
    /\ \A i \in 1..2 : DeventRequests[i].session_id = session.id

\* C19: an event whose callback runs while the stop flag is set (it is set
\* when the callback checks it) changes neither the cached position nor the
\* buffer nor the requests, and no event is built for it.
C19_InertWhenFlagSet ==
    [][ignored' # ignored =>
          UNCHANGED <<last_mouse_pos, cbPending, session, requests, uploads, clock_over>>]_vars

\* C19 witness: a stop has set the flag, the listener is still subscribed and
\* an event was delivered to it since.
C19_Witness ==
    /\ ignored > 0
    /\ ~is_recording
    /\ \E w \in Sids : inPc[w] = "listening"
    /\ \E c \in Calls : StopOfRunning(c)

\* The orders in which the supervisor may act on its child when it shuts it
\* down: quit then wait; a kill and a second wait after a failed quit or a
\* failed wait; the join of the forwarders last.
ShutdownOrders ==
    { <<ChildOp("quit", TRUE), ChildOp("wait", TRUE), ChildOp("join", TRUE)>>,
      <<ChildOp("quit", TRUE), ChildOp("wait", FALSE), ChildOp("kill", TRUE),
        ChildOp("wait", TRUE), ChildOp("join", TRUE)>>,
      <<ChildOp("quit", FALSE), ChildOp("kill", TRUE), ChildOp("wait", TRUE),
        ChildOp("join", TRUE)>> }
IsPrefix(s, t) == Len(s) <= Len(t) /\ s = SubSeq(t, 1, Len(s))

\* C20: what the encoder supervisor has done to its child is always the
\* beginning of one of the shutdown orders, and it does nothing to it before
\* it has observed the stop flag.
C20_ShutdownOrder ==
    \A w \in Sids :
        /\ \E o \in ShutdownOrders : IsPrefix(childOps[w], o)
        /\ encPc[w] \in {"none", "spawn", "poll", "take", "panicked"} => childOps[w] = <<>>

\* C20 witness: a supervisor whose wait failed after a successful quit has
\* killed the child, waited again and joined the forwarders.
C20_Witness ==
    \E w \in Sids :
        /\ encPc[w] = "done"
        /\ childOps[w] = <<ChildOp("quit", TRUE), ChildOp("wait", FALSE), ChildOp("kill", TRUE),
                          ChildOp("wait", TRUE), ChildOp("join", TRUE)>>


\* ------------------------------------------------------------------ C21
\* The supervisor is running with a spawned child: it is in its polling loop
\* or in the shutdown sequence after it.
SupervisorRunning(w) ==
    encPc[w] \in {"poll", "take", "quit", "wait", "kill", "wait2", "join_stdio"}

\* C21: once the stop flag is set while the encoder supervisor is running
\* with a spawned child, the supervisor eventually terminates, under fair
\* scheduling and an encoder that exits after the quit command or the kill
\* and closes its streams.
C21_SupervisorTerminates ==
    \A w \in Sids : (SupervisorRunning(w) /\ ~is_recording) ~> (encPc[w] = "done")

\* A supervisor that saw the stop flag has gone through the shutdown sequence
\* and ended.
C21_Witness ==
    /\ encPc[1] = "done"
    /\ ~is_recording
    /\ \E i \in 1..Len(childOps[1]) : childOps[1][i].op = "join"


\* ------------------------------------------------------------------ C22
\* C22: every stop call completes by returning Ok or an error and never
\* panics, also when the encoder worker ended abnormally because the encoder
\* could not be spawned.
\* Checked for the stop calls the spec is first about: a stop that began with
\* no other call in progress, after a start that returned Ok.
C22_StopNeverPanics ==
    \A c \in Calls : StopOfRunning(c) => res[c] # "Panic"


\* ------------------------------------------------------------------ C24
\* Call c is at a file-system operation: the create_dir_all calls of
\* RecordingSession::new (start), the writing of events.csv or the
\* canonicalize of the output directory (stop).
AtFileIo(c) == pc[c] \in {"s_new", "t_save", "t_emit"}

\* C24: the lock of the session slot is never held while file-system I/O is
\* in progress (directory creation in start, persistence and path
\* resolution in stop).
C24_NoIoUnderSlotLock ==
    \A c \in Calls : AtFileIo(c) => sessionLock # <<"call", c>>


\* ------------------------------------------------------------------ C27
\* C27: when the creation of the session's directories fails, start returns
\* the error and changes nothing: the slot is still empty, the stop flag is
\* as it was, no worker is spawned and recording_started is not emitted,
\* neither by the failing step nor later on behalf of that call.
C27_FailedStartChangesNothing ==
    /\ [](\A c \in Calls : (op[c] = "start" /\ res[c] = "IoError") => mySid[c] = None)
    /\ [][\A c \in Calls :
            (op[c] = "start" /\ res[c] = "none" /\ res'[c] = "IoError") =>
                /\ session' = NoSession
                /\ UNCHANGED <<session, is_recording, ffmpeg_handle, event_handle,
                               ffmpeg_child, nextId, encPc, inPc, watchPc, emitted>>]_vars

\* A start has returned the directory-creation error.
C27_Witness ==
    /\ op[1] = "start" /\ res[1] = "IoError"
    /\ session = NoSession
    /\ EncodersSpawned = {} /\ ListenersSpawned = {} /\ WatchersSpawned = {}
    /\ emitted = <<>>


\* ------------------------------------------------------------------ C28
\* C28: whenever the stop flag is clear (recording) the session slot is
\* occupied, so an input callback that has passed the flag check, and the
\* append that follows it, never finds the slot empty.
C28_SlotOccupiedWhileRecording ==
    /\ [](is_recording => IsSome(session))
    /\ [](\A w \in Sids : cbPending[w] # NoEvent => IsSome(session))
    /\ [][\A w \in Sids : (cbPending[w] # NoEvent /\ cbPending'[w] = NoEvent) =>
            (IsSome(session) /\ session'.events = Append(session.events, cbPending[w]))]_vars

\* A callback has passed the flag check and is about to lock the slot.
C28_Witness ==
    /\ is_recording
    /\ cbPending[1] # NoEvent
    /\ IsSome(session)


\* ------------------------------------------------------------------ C25
\* The encoder of session w exits on its own: no quit command was sent and
\* the stop flag is clear.
ExitsOnItsOwn(w) == child[w] = "running" /\ child'[w] = "exited" /\ is_recording

\* C25: an encoder that exits on its own while the stop flag is clear tears
\* nothing else down: the exit leaves the flag, the slot, the supervisor and
\* the input capture as they were, the input callback still appends after
\* it, and the supervisor leaves its polling loop only after a stop has set
\* the flag.
C25_ChildExitTearsNothingDown ==
    /\ [][\A w \in Sids : ExitsOnItsOwn(w) =>
            UNCHANGED <<ctlVars, callVars, encPc, inVars, watchVars, outVars>>]_vars
    /\ [](\A w \in Sids :
            (child[w] = "exited" /\ is_recording /\ inPc[w] = "listening"
             /\ cbPending[w] = NoEvent /\ delivered < MaxEvents /\ ~clock_over) =>
                ENABLED (\E e \in OsEvents, f \in ScaleFactors :
                            InDeliver(w, e, f, TRUE) /\ cbPending'[w] # NoEvent))
    /\ [][\A w \in Sids :
            (child[w] = "exited" /\ is_recording
             /\ cbPending[w] # NoEvent /\ cbPending'[w] = NoEvent) =>
                session'.events = Append(session.events, cbPending[w])]_vars
    /\ [](\A w \in Sids :
            encPc[w] \in {"take", "quit", "wait", "kill", "wait2", "join_stdio", "done"} =>
                ~is_recording /\ ~NoStopYet)

\* The encoder has exited and no stop was called: the session is still
\* recording, its supervisor is polling, an event is in the buffer and the
\* callback has built another.
C25_Witness ==
    /\ child[1] = "exited"
    /\ is_recording
    /\ encPc[1] = "poll"
    /\ NoStopYet
    /\ cbPending[1] # NoEvent
    /\ session.events # <<>>


\* ------------------------------------------------------------------ C29
\* The events the callback has built and not yet appended.
PendingEvents == IF cbPending[1] = NoEvent THEN <<>> ELSE <<cbPending[1]>>
\* The buffer of the session in the slot.
Buffer == IF IsSome(session) THEN session.events ELSE <<>>

\* C29: the event buffer is append-only under every interleaving: a step
\* either leaves it alone or appends one event at its end, only the input
\* callback appends, and the buffer holds the accepted events in the order
\* of their delivery.
C29_BufferAppendOnly ==
    /\ [][\/ Buffer' = Buffer
          \/ /\ cbPending[1] # NoEvent /\ cbPending'[1] = NoEvent
             /\ Buffer' = Append(Buffer, cbPending[1])
             /\ UNCHANGED callVars]_vars
    /\ [](Buffer \o PendingEvents = accepted)

\* Two events were delivered and appended, a key press behind a button press.
C29_Witness ==
    /\ Len(Buffer) = 2
    /\ Buffer[1].kind = "ButtonPress" /\ Buffer[2].kind = "KeyPress"
    /\ accepted = Buffer


\* ------------------------------------------------------------------ C23
\* The step issues the PUT of upload task i.
IssuesPut(i) == uploads[i].put = "none" /\ uploads'[i].put \in {"ok", "failed"}

\* C23: an upload task issues its PUT only after its POST to
\* recordings/fetch_save_url was answered with a 2xx status; after a non-2xx
\* answer or a transport error no PUT is issued.
C23_PutOnlyAfter2xx ==
    [][\A i \in 1..Len(uploads) : IssuesPut(i) => uploads[i].reply.status = "2xx"]_vars


\* ------------------------------------------------------------------ C26
\* The step is a failure of upload task i: its POST fails, one of its
\* unwraps panics (response body, segment file), or its PUT fails.
UploadFails(i) ==
    /\ uploads'[i] # uploads[i]
    /\ \/ uploads'[i].step \in {"post_failed", "panicked"}
       \/ uploads'[i].put \in {"invalid_url", "failed"}
\* The step is a failure of an event POST.
DeventFails == devent_done'.failed # devent_done.failed
\* A task of session w has failed.
SomeUploadFailed(w) ==
    \E i \in 1..Len(uploads) :
        /\ uploads[i].session_id = w
        /\ \/ uploads[i].step \in {"post_failed", "panicked"}
           \/ uploads[i].put \in {"invalid_url", "failed"}
\* The next line of the segment list of session w is a row of three fields.
NextLineIsRow(w) ==
    Len(Split(Trim(ReadLine(segments_csv[w].bytes, last_position[w])))) = 3

\* C26: a failure in any step of an upload (the POST, the reading of the
\* segment file, the PUT) or in an event POST leaves the session slot, the
\* stop flag, the event buffer and the watcher's watermark as they were,
\* together with the threads and the other tasks; and after such a failure
\* the watcher still hands the later segments to new upload tasks.
C26_FailuresAreContained ==
    /\ [][\A i \in 1..Len(uploads) : UploadFails(i) =>
            /\ UNCHANGED <<ctlVars, callVars, encVars, inVars, watchPc, last_position,
                           segments_csv, outVars>>
            /\ \A j \in 1..Len(uploads) : j # i => uploads'[j] = uploads[j]]_vars
    /\ [][DeventFails =>
            UNCHANGED <<ctlVars, callVars, encVars, inVars, watchVars, emitted, requests,
                        events_csv>>]_vars
    /\ [](\A w \in Sids :
            (SomeUploadFailed(w) /\ watchPc[w] = "sleep") => ENABLED WatchOpen(w))
    /\ [](\A w \in Sids :
            (SomeUploadFailed(w) /\ watchPc[w] = "read") => ENABLED WatchReadLine(w))
    /\ [][\A w \in Sids :
            (SomeUploadFailed(w) /\ watchPc[w] = "read" /\ NextLineIsRow(w)
             /\ last_position'[w] # last_position[w]) =>
                /\ Len(uploads') = Len(uploads) + 1
                /\ uploads'[Len(uploads')].step = "post"
                /\ uploads'[Len(uploads')].session_id = w]_vars

\* The first upload has panicked and an event POST has failed; the session
\* is recording with the event in its buffer, and the watcher, its watermark
\* behind the first row, is about to hand the second.
C26_Witness ==
    /\ Len(uploads) = 1 /\ uploads[1].step = "panicked"
    /\ devent_done.failed > 0
    /\ is_recording /\ Buffer # <<>>
    /\ watchPc[1] = "read" /\ last_position[1] = Len(SegmentRow(1))
    /\ NextLineIsRow(1)


\* ------------------------------------------------------------------ C30
\* The recorded events that carry an action, in buffer order: the i-th
\* request to devents/create was built from the i-th of them.
RecordedActions == SelectSeq(Buffer, IsAction)

\* C30: every submitted Input Event has exactly one of mouse_action,
\* keyboard_action and scroll_action: a button press gives only a
\* mouse_action, a key press only a keyboard_action, with duration 100, and
\* a wheel event only a scroll_action, with the delivered deltas, zero
\* deltas included.
C30_ExactlyOneAction ==
    /\ Len(DeventRequests) = Len(RecordedActions)
    /\ \A i \in 1..Len(DeventRequests) :
          LET r == DeventRequests[i]
              e == RecordedActions[i].event
          IN  /\ Len(r.mouse_action) + Len(r.keyboard_action) + Len(r.scroll_action) = 1
              /\ e.kind = "ButtonPress" => r.mouse_action # <<>>
              /\ e.kind = "KeyPress" =>
                    r.keyboard_action # <<>> /\ r.keyboard_action[1].duration = 100
              /\ e.kind = "Wheel" =>
                    r.scroll_action = <<[x |-> e.delta_x, y |-> e.delta_y]>>

\* A key press and a wheel event with zero deltas were submitted.
C30_Witness ==
    /\ Len(DeventRequests) = 2
    /\ RecordedActions[1].event.kind = "KeyPress"
    /\ DeventRequests[1].keyboard_action # <<>>
    /\ RecordedActions[2].event = Wheel(<<0, 0>>)
    /\ DeventRequests[2].scroll_action = <<[x |-> 0, y |-> 0]>>


\* ------------------------------------------------------------------ C31
\* The watcher of session w is in its loop.
WatcherRunning(w) == watchPc[w] \in {"sleep", "read"}
\* The step is a step of a stop call.
StopSteps == \E c \in Calls : op'[c] = "stop" /\ <<op[c], pc[c]>> # <<op'[c], pc'[c]>>

\* C31: stop does not signal or end the segment watcher: no step of a stop
\* touches the watcher, its watermark or its tasks; the watcher leaves its
\* loop only by the panic on a missing segment list, never because the stop
\* flag is set or a stop has returned; and a row it reads once the flag is
\* set (a segment completed during the encoder's shutdown) is handed to a
\* new upload task like any other.
C31_StopLeavesWatcherRunning ==
    /\ [][StopSteps => UNCHANGED watchVars]_vars
    /\ [][\A w \in Sids :
            (WatcherRunning(w) /\ ~WatcherRunning(w)') => ~segments_csv[w].exists]_vars
    /\ [](\A w \in Sids : WatcherRunning(w) => ENABLED WatchStep(w))
    /\ [][\A w \in Sids :
            (~is_recording /\ watchPc[w] = "read" /\ NextLineIsRow(w)
             /\ last_position'[w] # last_position[w]) =>
                /\ Len(uploads') = Len(uploads) + 1
                /\ uploads'[Len(uploads')].session_id = w
                /\ uploads'[Len(uploads')].filename =
                      Split(Trim(ReadLine(segments_csv[w].bytes, last_position[w])))[1]]_vars

\* A stop has returned Ok with the encoder gone; the watcher is in a scan,
\* has handed the first segment and is about to read the row of the last.
C31_Witness ==
    /\ \E c \in Calls : op[c] = "stop" /\ res[c] = "Ok"
    /\ encPc[1] = "done" /\ child[1] = "exited"
    /\ watchPc[1] = "read"
    /\ Len(uploads) = MaxSegments - 1
    /\ last_position[1] = Len(SegmentList(MaxSegments - 1))
    /\ segments_csv[1].bytes = SegmentList(MaxSegments)


\* ------------------------------------------------------------------ C32
\* The upload tasks spawned for row k of the segment list of session w.
TasksOfRow(w, k) ==
    {i \in 1..Len(uploads) : uploads[i].session_id = w /\ uploads[i].row = k}
\* The watcher of session w has moved its watermark past row k.
PastRow(w, k) == last_position[w] >= Len(SegmentList(k))

\* C32: every row the encoder writes completely while the watcher runs leads
\* to exactly one upload task, which carries the row's full file name, also
\* when a scan read the list with only part of the row written: once the
\* watermark is past a row, there is one task of that row, with its name.
C32_EveryRowUploadedOnce ==
    \A w \in Sids : \A k \in 1..MaxSegments :
        PastRow(w, k) =>
            /\ Cardinality(TasksOfRow(w, k)) = 1
            /\ \A i \in TasksOfRow(w, k) : uploads[i].filename = <<Name(k)>>


\* ------------------------------------------------------------------ C33
\* C33: when the segment list does not exist at a scan (the encoder has
\* not created it yet, or could not be started), the watcher skips the scan
\* and keeps running: every watcher that was spawned is in its loop.
C33_MissingListSkipsScan ==
    \A w \in WatchersSpawned : WatcherRunning(w)


\* ------------------------------------------------------------------ C34
\* The workers that exist: the encoder processes running, and the threads
\* that were spawned and have not ended.
LiveChildren == {w \in Sids : ChildAlive(w)}
LiveEncoders == {w \in Sids : EncoderAlive(w)}
LiveListeners == {w \in Sids : ListenerAlive(w)}
LiveWatchers == {w \in Sids : WatcherRunning(w)}
\* A handle slot of the controller is empty or holds the worker of the
\* session in the slot.
OfSlotSession(h) == h # None => (IsSome(session) /\ h = session.id)

\* C34: over every sequence and interleaving of start and stop calls there
\* is at any time at most one encoder process, one encoder supervisor, one
\* input capture thread and one segment watcher, and the handles the
\* controller holds (supervisor, input thread, encoder child) are those of
\* the workers of the session in the slot.
C34_OneSetOfWorkers ==
    /\ Cardinality(LiveChildren) <= 1
    /\ Cardinality(LiveEncoders) <= 1
    /\ Cardinality(LiveListeners) <= 1
    /\ Cardinality(LiveWatchers) <= 1
    /\ OfSlotSession(ffmpeg_handle)
    /\ OfSlotSession(event_handle)
    /\ OfSlotSession(ffmpeg_child)
    /\ \A w \in LiveChildren \cup LiveEncoders \cup LiveListeners \cup LiveWatchers :
          IsSome(session) /\ w = session.id

\* The workers of the session in the slot are all up, the controller holds
\* their handles, and a second start, made meanwhile, was refused.
C34_Witness ==
    /\ IsSome(session)
    /\ LiveChildren = {session.id} /\ LiveEncoders = {session.id}
    /\ LiveListeners = {session.id} /\ LiveWatchers = {session.id}
    /\ ffmpeg_handle = session.id /\ event_handle = session.id /\ ffmpeg_child = session.id
    /\ \E c \in Calls : op[c] = "start" /\ res[c] = "AlreadyActive" /\ ~alone[c]

====
